---- MODULE Spec2Model ----
(***************************************************************************)
(* The maze scene of Dungeon-Diver (src/src/maze_scene.rs): the cell grid, *)
(* its generation, move validation, and the scene lifecycle callbacks      *)
(* on_enter / handle_input / update / draw / on_exit.                      *)
(***************************************************************************)
EXTENDS Integers, FiniteSets, Sequences, TLC

(* ----------------------------- bounds --------------------------------- *)
\* largest grid area (width * height) explored by Spec and SpecFrames
MaxCells == 24
\* largest grid area explored by the generation-only specification SpecGen
GenMaxCells == 35
\* cap on the shared score and on the observation counters
MaxScore == 2
\* largest grid area and largest coordinate of the is_valid_move queries
QueryMaxCells == 4
MaxCoord == 4

(* ------------------------- program constants -------------------------- *)
cell_size == 30

CellType == {"Wall", "Path", "Start", "Exit"}
Directions == {"Right", "Left", "Down", "Up"}

VARIABLES
    grid_width, grid_height, \* MazeScene.grid_width / grid_height
    grid,                    \* MazeScene.grid, grid[y][x], 0-indexed
    player_x, player_y,      \* MazeScene.player_x / player_y
    points,                  \* GameData.points, the shared score
    pc,                      \* the call that ran last (or construction stage)
    iter,                    \* iterations done of the random-wall loop
    keys,                    \* directions pressed in the last handle_input
    new_x, new_y,            \* candidate position of the last handle_input
    valid,                   \* result of the last is_valid_move call
    ret,                     \* SceneSwitch returned by the last call
    old_x, old_y, old_points,\* player position and score before the last call
    arrivals,                \* moves of the player onto Exit since on_enter
    pushes                   \* Push signals returned since on_enter

vars == <<grid_width, grid_height, grid, player_x, player_y, points, pc, iter,
          keys, new_x, new_y, valid, ret, old_x, old_y, old_points,
          arrivals, pushes>>

(* --------------------------- grid helpers ----------------------------- *)
Rows(h) == 0 .. (h - 1)
Cols(w) == 0 .. (w - 1)

\* vec![vec![CellType::Wall; grid_width]; grid_height]
WallGrid(w, h) == [y \in Rows(h) |-> [x \in Cols(w) |-> "Wall"]]

\* "Start with all paths"
AllPaths(g, w, h) == [y \in Rows(h) |-> [x \in Cols(w) |-> "Path"]]

\* "Add walls around the edges": column 0 and width-1 of every row, then
\* row 0 and height-1 of every column
EdgeWallsBroken(g, w, h) ==
    [y \in Rows(h) |-> [x \in Cols(w) |->
        IF x = 0 \/ y = 0 \/ y = h - 1 THEN "Wall" ELSE g[y][x]]]

EdgeWalls(g, w, h) ==
    [y \in Rows(h) |-> [x \in Cols(w) |->
        IF x = 0 \/ x = w - 1 \/ y = 0 \/ y = h - 1 THEN "Wall" ELSE g[y][x]]]

\* number of iterations of the random-wall loop
RandomWallCount(w, h) == (w * h) \div 5

\* rng.gen_range(1..n-1): the half-open range 1 .. n-2
SampleRange(n) == 1 .. (n - 2)

\* "Ensure there's a path through the maze": every even y in 1..height-2
CarvePathOddRows(g, w, h) ==
    [y \in Rows(h) |-> [x \in Cols(w) |->
        IF y >= 1 /\ y <= h - 2 /\ y % 2 = 1 /\ x = w \div 2
        THEN "Path" ELSE g[y][x]]]

CarvePath(g, w, h) ==
    [y \in Rows(h) |-> [x \in Cols(w) |->
        IF y >= 1 /\ y <= h - 2 /\ y % 2 = 0 /\ x = w \div 2
        THEN "Path" ELSE g[y][x]]]

\* "Set start and exit points": two writes, the second wins on the same cell
StampNoExit(g, w, h) == [g EXCEPT ![1][1] = "Start"]

StampExitFirst(g, w, h) ==
    [[g EXCEPT ![h - 2][w - 2] = "Exit"] EXCEPT ![1][1] = "Start"]

StampStartExit(g, w, h) ==
    [[g EXCEPT ![1][1] = "Start"] EXCEPT ![h - 2][w - 2] = "Exit"]

\* the scan of MazeScene::new: the break leaves only the inner loop, so the
\* last row holding a Start cell wins, at its first Start column
StartRows(g, w, h) == {y \in Rows(h) : \E x \in Cols(w) : g[y][x] = "Start"}
MaxOf(S) == CHOOSE m \in S : \A n \in S : n <= m
MinOf(S) == CHOOSE m \in S : \A n \in S : m <= n
FindStartFirstPath(g, w, h) ==
    LET rows == {y \in Rows(h) : \E x \in Cols(w) : g[y][x] = "Path"}
    IN  IF rows = {} THEN <<1, 1>>
        ELSE LET y == MaxOf(rows)
             IN  <<MinOf({x \in Cols(w) : g[y][x] = "Path"}), y>>

FindStartOrigin(g, w, h) ==
    IF StartRows(g, w, h) = {} THEN <<0, 0>>
    ELSE LET y == MaxOf(StartRows(g, w, h))
         IN  <<MinOf({x \in Cols(w) : g[y][x] = "Start"}), y>>

FindStart(g, w, h) ==
    IF StartRows(g, w, h) = {} THEN <<1, 1>>
    ELSE LET y == MaxOf(StartRows(g, w, h))
         IN  <<MinOf({x \in Cols(w) : g[y][x] = "Start"}), y>>

(* --------------------------- is_valid_move ---------------------------- *)
is_valid_move_path_only(x, y) ==
    IF x >= grid_width \/ y >= grid_height THEN FALSE
    ELSE grid[y][x] = "Path"

is_valid_move_bounds_only(x, y) ==
    IF x >= grid_width \/ y >= grid_height THEN FALSE
    ELSE TRUE

is_valid_move(x, y) ==
    IF x >= grid_width \/ y >= grid_height THEN FALSE
    ELSE grid[y][x] # "Wall"

(* --------------------------- construction ----------------------------- *)
\* grid sizes of at least 2 x 2 within an area bound
Sizes(maxCells) ==
    {s \in (2 .. maxCells) \X (2 .. maxCells) : s[1] * s[2] <= maxCells}

\* screen sizes in pixels giving those grid sizes under width / cell_size
Screens(maxCells) ==
    {<<cell_size * s[1] + r, cell_size * s[2] + r>> :
        s \in Sizes(maxCells), r \in {0, cell_size - 1}}

\* MazeScene::new up to the call of generate_simple_maze
NewScene(width, height) ==
    /\ grid_width = width \div cell_size
    /\ grid_height = height \div cell_size
    /\ grid = WallGrid(grid_width, grid_height)
    /\ player_x = 1
    /\ player_y = 1
    /\ points \in 0 .. MaxScore
    /\ pc = "generate"
    /\ iter = 0
    /\ keys = {}
    /\ new_x = 1
    /\ new_y = 1
    /\ valid = FALSE
    /\ ret = "Unit"
    /\ old_x = 1
    /\ old_y = 1
    /\ old_points = points
    /\ arrivals = 0
    /\ pushes = 0

Init == \E s \in Screens(MaxCells) : NewScene(s[1], s[2])

InitGen == \E s \in Screens(GenMaxCells) : NewScene(s[1], s[2])

sceneVars == <<player_x, player_y, points, keys, new_x, new_y, valid, ret,
               old_x, old_y, old_points, arrivals, pushes>>

\* generate_simple_maze: all paths, then the edge walls
generate_fill ==
    /\ pc = "generate"
    /\ grid' = EdgeWalls(AllPaths(grid, grid_width, grid_height),
                         grid_width, grid_height)
    /\ iter' = 0
    /\ pc' = "random"
    /\ UNCHANGED <<grid_width, grid_height>>
    /\ UNCHANGED sceneVars

\* one iteration of the random-wall loop, both ranges non-empty
generate_random_wall ==
    /\ pc = "random"
    /\ iter < RandomWallCount(grid_width, grid_height)
    /\ \E x \in SampleRange(grid_width), y \in SampleRange(grid_height) :
          grid' = [grid EXCEPT ![y][x] = "Wall"]
    /\ iter' = iter + 1
    /\ UNCHANGED <<grid_width, grid_height, pc>>
    /\ UNCHANGED sceneVars

\* one iteration of the random-wall loop with an empty range: gen_range
\* panics and no scene is constructed
generate_random_panic ==
    /\ pc = "random"
    /\ iter < RandomWallCount(grid_width, grid_height)
    /\ SampleRange(grid_width) = {} \/ SampleRange(grid_height) = {}
    /\ pc' = "panicked"
    /\ UNCHANGED <<grid_width, grid_height, grid, iter>>
    /\ UNCHANGED sceneVars

\* the rest of generate_simple_maze (middle-column carve, Start/Exit stamp)
\* and the rest of MazeScene::new (scan for Start)
generate_finish ==
    /\ pc = "random"
    /\ iter = RandomWallCount(grid_width, grid_height)
    /\ grid' = StampStartExit(CarvePath(grid, grid_width, grid_height),
                              grid_width, grid_height)
    /\ player_x' = FindStart(grid', grid_width, grid_height)[1]
    /\ player_y' = FindStart(grid', grid_width, grid_height)[2]
    /\ old_x' = player_x'
    /\ old_y' = player_y'
    /\ new_x' = player_x'
    /\ new_y' = player_y'
    /\ pc' = "constructed"
    /\ UNCHANGED <<grid_width, grid_height, iter, points, keys, valid, ret,
                   old_points, arrivals, pushes>>

Generate ==
    \/ generate_fill
    \/ generate_random_wall
    \/ generate_random_panic
    \/ generate_finish

\* the scene exists: MazeScene::new has returned
Constructed == pc \notin {"generate", "random", "panicked", "query", "queried"}

NextGen == Generate

SpecGen == InitGen /\ [][NextGen]_vars

(* ------------------------- scene lifecycle ---------------------------- *)
gridVars == <<grid_width, grid_height, grid, iter>>
obsVars == <<arrivals, pushes>>

\* GameData::score(): add one point
score(p) == p + 1

\* a call that takes no key input and computes no candidate
NoInput ==
    /\ keys' = {}
    /\ new_x' = player_x
    /\ new_y' = player_y
    /\ valid' = FALSE

\* the player position and the score as the call found them
Snapshot ==
    /\ old_x' = player_x
    /\ old_y' = player_y
    /\ old_points' = points

on_enter_respawn ==
    /\ Constructed
    /\ points' = 0
    /\ player_x' = FindStart(grid, grid_width, grid_height)[1]
    /\ player_y' = FindStart(grid, grid_width, grid_height)[2]
    /\ ret' = "Unit"
    /\ pc' = "on_enter"
    /\ Snapshot
    /\ keys' = {}
    /\ new_x' = player_x'
    /\ new_y' = player_y'
    /\ valid' = FALSE
    /\ UNCHANGED gridVars

on_enter ==
    /\ Constructed
    /\ points' = 0
    /\ ret' = "Unit"
    /\ pc' = "on_enter"
    /\ Snapshot
    /\ NoInput
    /\ UNCHANGED <<player_x, player_y>>
    /\ UNCHANGED gridVars

CandidateDecFirst(c, inc, dec) ==
    LET a == IF dec /\ c > 0 THEN c - 1 ELSE c
    IN  IF inc THEN a + 1 ELSE a

\* the candidate coordinate: the increment first, then the guarded decrement
Candidate(c, inc, dec) ==
    LET a == IF inc THEN c + 1 ELSE c
    IN  IF dec /\ a > 0 THEN a - 1 ELSE a

handle_input_per_axis(k) ==
    /\ Constructed
    /\ LET nx == Candidate(player_x, "Right" \in k, "Left" \in k)
           ny == Candidate(player_y, "Down" \in k, "Up" \in k)
           vx == is_valid_move(nx, player_y)
           px == IF vx THEN nx ELSE player_x
           vy == is_valid_move(px, ny)
       IN  /\ new_x' = nx
           /\ new_y' = ny
           /\ valid' = (vx /\ vy)
           /\ player_x' = px
           /\ player_y' = IF vy THEN ny ELSE player_y
    /\ keys' = k
    /\ ret' = "None"
    /\ pc' = "handle_input"
    /\ Snapshot
    /\ UNCHANGED points
    /\ UNCHANGED gridVars

handle_input_no_corner_cut(k) ==
    /\ Constructed
    /\ LET nx == Candidate(player_x, "Right" \in k, "Left" \in k)
           ny == Candidate(player_y, "Down" \in k, "Up" \in k)
           v  == /\ is_valid_move(nx, ny)
                 /\ is_valid_move(nx, player_y)
                 /\ is_valid_move(player_x, ny)
       IN  /\ new_x' = nx
           /\ new_y' = ny
           /\ valid' = v
           /\ player_x' = IF v THEN nx ELSE player_x
           /\ player_y' = IF v THEN ny ELSE player_y
    /\ keys' = k
    /\ ret' = "None"
    /\ pc' = "handle_input"
    /\ Snapshot
    /\ UNCHANGED points
    /\ UNCHANGED gridVars

handle_input_flipped_y(k) ==
    /\ Constructed
    /\ LET nx == Candidate(player_x, "Right" \in k, "Left" \in k)
           ny == Candidate(player_y, "Up" \in k, "Down" \in k)
           v  == is_valid_move(nx, ny)
       IN  /\ new_x' = nx
           /\ new_y' = ny
           /\ valid' = v
           /\ player_x' = IF v THEN nx ELSE player_x
           /\ player_y' = IF v THEN ny ELSE player_y
    /\ keys' = k
    /\ ret' = "None"
    /\ pc' = "handle_input"
    /\ Snapshot
    /\ UNCHANGED points
    /\ UNCHANGED gridVars

handle_input_else_if(k) ==
    /\ Constructed
    /\ LET horizontal == "Right" \in k \/ "Left" \in k
           nx == Candidate(player_x, "Right" \in k, "Left" \in k)
           ny == IF horizontal THEN player_y
                 ELSE Candidate(player_y, "Down" \in k, "Up" \in k)
           v  == is_valid_move(nx, ny)
       IN  /\ new_x' = nx
           /\ new_y' = ny
           /\ valid' = v
           /\ player_x' = IF v THEN nx ELSE player_x
           /\ player_y' = IF v THEN ny ELSE player_y
    /\ keys' = k
    /\ ret' = "None"
    /\ pc' = "handle_input"
    /\ Snapshot
    /\ UNCHANGED points
    /\ UNCHANGED gridVars

\* k: the directions whose key (arrow or WASD) is pressed in this frame
handle_input(k) ==
    /\ Constructed
    /\ LET nx == Candidate(player_x, "Right" \in k, "Left" \in k)
           ny == Candidate(player_y, "Down" \in k, "Up" \in k)
           v  == is_valid_move(nx, ny)
       IN  /\ new_x' = nx
           /\ new_y' = ny
           /\ valid' = v
           /\ player_x' = IF v THEN nx ELSE player_x
           /\ player_y' = IF v THEN ny ELSE player_y
    /\ keys' = k
    /\ ret' = "None"
    /\ pc' = "handle_input"
    /\ Snapshot
    /\ UNCHANGED points
    /\ UNCHANGED gridVars

update_clears_exit ==
    /\ Constructed
    /\ IF grid[player_y][player_x] = "Exit"
       THEN /\ points < MaxScore
            /\ points' = score(points)
            /\ ret' = "Push"
            /\ grid' = [grid EXCEPT ![player_y][player_x] = "Path"]
       ELSE /\ ret' = "None"
            /\ UNCHANGED <<points, grid>>
    /\ pc' = "update"
    /\ Snapshot
    /\ NoInput
    /\ UNCHANGED <<player_x, player_y>>
    /\ UNCHANGED <<grid_width, grid_height, iter>>

update_respawn ==
    /\ Constructed
    /\ IF grid[player_y][player_x] = "Exit"
       THEN /\ points < MaxScore
            /\ points' = score(points)
            /\ ret' = "Push"
            /\ player_x' = FindStart(grid, grid_width, grid_height)[1]
            /\ player_y' = FindStart(grid, grid_width, grid_height)[2]
       ELSE /\ ret' = "None"
            /\ UNCHANGED <<points, player_x, player_y>>
    /\ pc' = "update"
    /\ Snapshot
    /\ NoInput
    /\ UNCHANGED gridVars

update_once_per_arrival ==
    /\ Constructed
    /\ IF grid[player_y][player_x] = "Exit" /\ pushes < arrivals
       THEN /\ points < MaxScore
            /\ points' = score(points)
            /\ ret' = "Push"
       ELSE /\ ret' = "None"
            /\ UNCHANGED points
    /\ pc' = "update"
    /\ Snapshot
    /\ NoInput
    /\ UNCHANGED <<player_x, player_y>>
    /\ UNCHANGED gridVars

update_on_start ==
    /\ Constructed
    /\ IF grid[player_y][player_x] = "Start"
       THEN /\ points < MaxScore
            /\ points' = score(points)
            /\ ret' = "Push"
       ELSE /\ ret' = "None"
            /\ UNCHANGED points
    /\ pc' = "update"
    /\ Snapshot
    /\ NoInput
    /\ UNCHANGED <<player_x, player_y>>
    /\ UNCHANGED gridVars

update_no_score ==
    /\ Constructed
    /\ IF grid[player_y][player_x] = "Exit"
       THEN /\ points < MaxScore
            /\ points' = points
            /\ ret' = "Push"
       ELSE /\ ret' = "None"
            /\ UNCHANGED points
    /\ pc' = "update"
    /\ Snapshot
    /\ NoInput
    /\ UNCHANGED <<player_x, player_y>>
    /\ UNCHANGED gridVars

\* the score is capped at MaxScore: no update on Exit beyond it
update ==
    /\ Constructed
    /\ IF grid[player_y][player_x] = "Exit"
       THEN /\ points < MaxScore
            /\ points' = score(points)
            /\ ret' = "Push"
       ELSE /\ ret' = "None"
            /\ UNCHANGED points
    /\ pc' = "update"
    /\ Snapshot
    /\ NoInput
    /\ UNCHANGED <<player_x, player_y>>
    /\ UNCHANGED gridVars

\* draw reads the grid, the player position and the score, and writes none
draw ==
    /\ Constructed
    /\ ret' = "Unit"
    /\ pc' = "draw"
    /\ Snapshot
    /\ NoInput
    /\ UNCHANGED <<player_x, player_y, points>>
    /\ UNCHANGED gridVars

on_exit ==
    /\ Constructed
    /\ ret' = "Unit"
    /\ pc' = "on_exit"
    /\ Snapshot
    /\ NoInput
    /\ UNCHANGED <<player_x, player_y, points>>
    /\ UNCHANGED gridVars

\* the host may make any lifecycle call on a constructed scene
Next ==
    \/ Generate
    \/ on_enter /\ UNCHANGED obsVars
    \/ \E k \in SUBSET Directions : handle_input(k) /\ UNCHANGED obsVars
    \/ update /\ UNCHANGED obsVars
    \/ draw /\ UNCHANGED obsVars
    \/ on_exit /\ UNCHANGED obsVars

Spec == Init /\ [][Next]_vars

\* An observer of the calls: it counts, since the last on_enter, the moves of
\* the player onto the Exit cell and the Push signals returned.
Arrived ==
    /\ pc' = "handle_input"
    /\ <<player_x', player_y'>> # <<player_x, player_y>>
    /\ grid[player_y'][player_x'] = "Exit"

Observe ==
    /\ arrivals' = IF pc' = "on_enter" THEN 0
                   ELSE IF Arrived THEN arrivals + 1 ELSE arrivals
    /\ pushes' = IF pc' = "on_enter" THEN 0
                 ELSE IF ret' = "Push" THEN pushes + 1 ELSE pushes
    /\ arrivals' <= MaxScore

\* the host's frame loop: on_enter, then handle_input, update, draw per frame
NextFrames ==
    \/ Generate
    \/ pc \in {"constructed", "on_exit"} /\ on_enter /\ Observe
    \/ /\ pc \in {"on_enter", "draw"}
       /\ \E k \in SUBSET Directions : handle_input(k)
       /\ Observe
    \/ pc = "handle_input" /\ update /\ Observe
    \/ pc = "update" /\ draw /\ Observe
    \/ pc = "draw" /\ on_exit /\ Observe

SpecFrames == Init /\ [][NextFrames]_vars

(* ----------------------- is_valid_move queries ------------------------ *)
\* any grid of any cells, any pair of unsigned coordinates
QuerySizes ==
    {s \in (1 .. QueryMaxCells) \X (1 .. QueryMaxCells) :
        s[1] * s[2] <= QueryMaxCells}

InitQuery ==
    /\ \E s \in QuerySizes :
          /\ grid_width = s[1]
          /\ grid_height = s[2]
          /\ grid \in [Rows(s[2]) -> [Cols(s[1]) -> CellType]]
    /\ new_x \in 0 .. MaxCoord
    /\ new_y \in 0 .. MaxCoord
    /\ valid = FALSE
    /\ pc = "query"
    /\ player_x = 0
    /\ player_y = 0
    /\ points = 0
    /\ iter = 0
    /\ keys = {}
    /\ ret = "Unit"
    /\ old_x = 0
    /\ old_y = 0
    /\ old_points = 0
    /\ arrivals = 0
    /\ pushes = 0

is_valid_move_call ==
    /\ pc = "query"
    /\ valid' = is_valid_move(new_x, new_y)
    /\ pc' = "queried"
    /\ UNCHANGED <<grid_width, grid_height, grid, player_x, player_y, points,
                   iter, keys, new_x, new_y, ret, old_x, old_y, old_points,
                   arrivals, pushes>>

NextQuery == is_valid_move_call

SpecQuery == InitQuery /\ [][NextQuery]_vars

(* ------------------------------ claims -------------------------------- *)
InBounds(x, y) == x >= 0 /\ x < grid_width /\ y >= 0 /\ y < grid_height
Passable(x, y) == InBounds(x, y) /\ grid[y][x] # "Wall"

\* C1: is_valid_move(x, y) is false when x >= grid_width or y >= grid_height,
\* false when the in-bounds cell grid[y][x] is Wall, and true when the
\* in-bounds cell is Path, Start or Exit, for any grid and coordinates.
C1_IsValidMove ==
    pc = "queried" =>
        /\ (new_x >= grid_width \/ new_y >= grid_height) => valid = FALSE
        /\ (InBounds(new_x, new_y) /\ grid[new_y][new_x] = "Wall")
              => valid = FALSE
        /\ (InBounds(new_x, new_y)
              /\ grid[new_y][new_x] \in {"Path", "Start", "Exit"})
              => valid = TRUE

\* an in-bounds query of an Exit cell in a grid that also holds a Wall
C1_Witness ==
    /\ pc = "queried"
    /\ InBounds(new_x, new_y)
    /\ grid[new_y][new_x] = "Exit"
    /\ valid = TRUE
    /\ \E y \in Rows(grid_height), x \in Cols(grid_width) : grid[y][x] = "Wall"

\* C2: a handle_input with exactly one direction pressed moves the player one
\* cell in that direction when the target cell is in the grid and not Wall,
\* and leaves the player where it was when the target cell is Wall.
Delta(d) ==
    IF d = "Right" THEN <<1, 0>>
    ELSE IF d = "Left" THEN <<-1, 0>>
    ELSE IF d = "Down" THEN <<0, 1>>
    ELSE <<0, -1>>

C2_SingleKeyMove ==
    \A d \in Directions :
        (pc = "handle_input" /\ keys = {d}) =>
            LET tx == old_x + Delta(d)[1]
                ty == old_y + Delta(d)[2]
            IN  /\ Passable(tx, ty) => (player_x = tx /\ player_y = ty)
                /\ (InBounds(tx, ty) /\ grid[ty][tx] = "Wall")
                      => (player_x = old_x /\ player_y = old_y)

\* a Right press has moved the player onto a Path cell
C2_Witness ==
    /\ pc = "handle_input"
    /\ keys = {"Right"}
    /\ player_x = old_x + 1
    /\ player_y = old_y
    /\ grid[player_y][player_x] = "Path"

\* C3 as stated: Right and Down pressed together, the cell to the right and
\* the cell below both passable: the player ends at (x+1, y+1).
C3_AsStated ==
    (pc = "handle_input" /\ keys = {"Right", "Down"}
        /\ Passable(old_x + 1, old_y) /\ Passable(old_x, old_y + 1))
    => (player_x = old_x + 1 /\ player_y = old_y + 1)

\* C3: Right and Down pressed together, the cell to the right, the cell below
\* and the diagonal cell (x+1, y+1) all passable: the player ends at
\* (x+1, y+1).
C3_DiagonalMove ==
    (pc = "handle_input" /\ keys = {"Right", "Down"}
        /\ Passable(old_x + 1, old_y) /\ Passable(old_x, old_y + 1)
        /\ Passable(old_x + 1, old_y + 1))
    => (player_x = old_x + 1 /\ player_y = old_y + 1)

\* a Right+Down press has moved the player diagonally, all three cells passable
C3_Witness ==
    /\ pc = "handle_input"
    /\ keys = {"Right", "Down"}
    /\ Passable(old_x + 1, old_y)
    /\ Passable(old_x, old_y + 1)
    /\ player_x = old_x + 1
    /\ player_y = old_y + 1

\* C4: update with the player on Exit adds exactly one to the score and
\* returns Push; update with the player on any other cell returns None and
\* leaves the score unchanged.
C4_UpdateOnExit ==
    [][pc' = "update" =>
        IF grid[player_y][player_x] = "Exit"
        THEN points' = points + 1 /\ ret' = "Push"
        ELSE points' = points /\ ret' = "None"]_vars

\* an update on the Exit cell has scored and signalled Push
C4_Witness ==
    /\ pc = "update"
    /\ grid[player_y][player_x] = "Exit"
    /\ ret = "Push"
    /\ points = old_points + 1

\* a grid of at least 3 x 3 cells whose Start cell was not overwritten
WellFormed == grid_width >= 3 /\ grid_height >= 3 /\ grid[1][1] = "Start"

\* C5 as stated, at the end of each frame of a well-formed maze: the score
\* and the number of Push signals both equal the number of moves of the
\* player onto Exit since on_enter.
C5_AsStated ==
    (pc = "draw" /\ WellFormed) => (points = arrivals /\ pushes = arrivals)

\* C5: in the frame loop after on_enter, the score equals the number of Push
\* signals returned since on_enter (one increment and one Push per update
\* made on Exit), and once a frame's update has run both are at least the
\* number of moves of the player onto Exit since on_enter.
C5_ScorePerExitUpdate ==
    /\ pc \in {"on_enter", "handle_input", "update", "draw", "on_exit"}
          => points = pushes
    /\ pc \in {"update", "draw", "on_exit"} => points >= arrivals

\* the player arrived on Exit once and stayed: two increments, two Push
C5_Witness ==
    /\ pc = "draw"
    /\ WellFormed
    /\ arrivals = 1
    /\ points = 2
    /\ pushes = 2

\* C6: on_enter sets the score to 0 and changes neither the grid nor the
\* player position.
C6_OnEnter ==
    [][pc' = "on_enter" =>
        /\ points' = 0
        /\ grid' = grid
        /\ grid_width' = grid_width
        /\ grid_height' = grid_height
        /\ player_x' = player_x
        /\ player_y' = player_y]_vars

\* on_enter found a positive score and the player away from the Start cell
C6_Witness ==
    /\ pc = "on_enter"
    /\ old_points > 0
    /\ points = 0
    /\ WellFormed
    /\ <<player_x, player_y>> # <<1, 1>>

Border(x, y) ==
    x = 0 \/ x = grid_width - 1 \/ y = 0 \/ y = grid_height - 1
BorderWalls ==
    \A y \in Rows(grid_height), x \in Cols(grid_width) :
        Border(x, y) => grid[y][x] = "Wall"
CellsOf(c) ==
    {p \in Cols(grid_width) \X Rows(grid_height) : grid[p[2]][p[1]] = c}

\* C7 as stated: every border cell of every generated grid of at least
\* 2 x 2 cells is Wall.
C7_AsStated == Constructed => BorderWalls

\* C7: every border cell of every generated grid of at least 3 x 3 cells is
\* Wall.
C7_BorderWalls ==
    (Constructed /\ grid_width >= 3 /\ grid_height >= 3) => BorderWalls

\* a generated grid with a random wall inside its border
C7_Witness ==
    /\ Constructed
    /\ grid_width >= 4
    /\ grid_height >= 4
    /\ BorderWalls
    /\ grid[1][2] = "Wall"

\* C8 as stated: in every generated grid grid[1][1] is Start and
\* grid[height-2][width-2] is Exit.
C8_AsStated ==
    Constructed =>
        /\ grid[1][1] = "Start"
        /\ grid[grid_height - 2][grid_width - 2] = "Exit"

\* C8: in every generated grid grid[height-2][width-2] is Exit, and
\* grid[1][1] is Start unless the grid is 3 x 3 (where it is that Exit cell).
C8_StartExit ==
    Constructed =>
        /\ grid[grid_height - 2][grid_width - 2] = "Exit"
        /\ <<grid_width, grid_height>> # <<3, 3>> => grid[1][1] = "Start"

\* a generated grid with Start and Exit stamped and random walls beside both
C8_Witness ==
    /\ Constructed
    /\ grid_width >= 5
    /\ grid[1][1] = "Start"
    /\ grid[grid_height - 2][grid_width - 2] = "Exit"
    /\ grid[1][2] = "Wall"
    /\ grid[grid_height - 2][grid_width - 3] = "Wall"

\* C9 as stated: every generated grid holds exactly one Start cell and
\* exactly one Exit cell.
C9_AsStated ==
    Constructed =>
        /\ Cardinality(CellsOf("Start")) = 1
        /\ Cardinality(CellsOf("Exit")) = 1

\* C9: every generated grid holds exactly one Exit cell, and exactly one
\* Start cell unless the grid is 3 x 3, which holds no Start cell.
C9_OneStartOneExit ==
    Constructed =>
        /\ Cardinality(CellsOf("Exit")) = 1
        /\ Cardinality(CellsOf("Start")) =
              IF <<grid_width, grid_height>> = <<3, 3>> THEN 0 ELSE 1

\* a generated grid with one Start, one Exit, and walls and paths inside
C9_Witness ==
    /\ Constructed
    /\ CellsOf("Start") = {<<1, 1>>}
    /\ CellsOf("Exit") = {<<grid_width - 2, grid_height - 2>>}
    /\ \E p \in CellsOf("Wall") : ~Border(p[1], p[2])
    /\ CellsOf("Path") # {}

\* C10: for every even row y in 1..height-2 of a generated grid,
\* grid[y][width/2] is Path, except where that cell is the Start cell (1,1)
\* or the Exit cell (height-2, width-2), where it is Start or Exit.
C10_MiddleColumn ==
    Constructed =>
        \A y \in 1 .. (grid_height - 2) :
            y % 2 = 0 =>
                grid[y][grid_width \div 2] =
                    IF <<grid_width \div 2, y>> = <<1, 1>> THEN "Start"
                    ELSE IF <<grid_width \div 2, y>>
                              = <<grid_width - 2, grid_height - 2>>
                         THEN "Exit"
                    ELSE "Path"

\* a generated grid whose middle column is Wall in row 1 and Path in row 2
C10_Witness ==
    /\ Constructed
    /\ grid_height >= 4
    /\ grid[1][grid_width \div 2] = "Wall"
    /\ grid[2][grid_width \div 2] = "Path"

\* C11: when MazeScene::new returns, the player stands on the Start cell of
\* the generated grid; only when the grid holds no Start cell does the player
\* stand at the fallback (1,1).
C11_PlayerAtStart ==
    pc = "constructed" =>
        IF CellsOf("Start") = {}
        THEN <<player_x, player_y>> = <<1, 1>>
        ELSE <<player_x, player_y>> \in CellsOf("Start")

\* a constructed scene whose grid holds Start, Path and interior Wall cells,
\* with the player on the Start cell
C11_Witness ==
    /\ pc = "constructed"
    /\ CellsOf("Start") = {<<player_x, player_y>>}
    /\ CellsOf("Path") # {}
    /\ \E p \in CellsOf("Wall") : ~Border(p[1], p[2])

\* C12 as stated: for every width >= 2 and height >= 2 generation completes:
\* whenever a random wall coordinate is drawn both sampling ranges are
\* non-empty, and generation never panics.
C12_AsStated ==
    /\ (pc = "random" /\ iter < RandomWallCount(grid_width, grid_height))
          => (SampleRange(grid_width) # {} /\ SampleRange(grid_height) # {})
    /\ pc # "panicked"

\* C13: once the scene is constructed, no call of on_enter, handle_input,
\* update, draw or on_exit changes a cell of the grid or its dimensions.
C13_GridImmutable ==
    [][Constructed =>
        /\ grid' = grid
        /\ grid_width' = grid_width
        /\ grid_height' = grid_height]_vars

\* the player has walked from Start onto Exit and update has scored there,
\* in a grid that still shows Start, Exit and an interior Wall
C13_Witness ==
    /\ pc = "update"
    /\ ret = "Push"
    /\ WellFormed
    /\ grid[player_y][player_x] = "Exit"
    /\ \E p \in CellsOf("Wall") : ~Border(p[1], p[2])

\* C14: update, draw and on_exit (and on_enter) leave the player position
\* unchanged; handle_input leaves the score unchanged and returns None.
C14_OnlyHandleInputMoves ==
    [][/\ pc' \in {"on_enter", "update", "draw", "on_exit"}
            => (player_x' = player_x /\ player_y' = player_y)
       /\ pc' = "handle_input" => (points' = points /\ ret' = "None")]_vars

\* a handle_input has moved the player with a positive score left as it was
C14_Witness ==
    /\ pc = "handle_input"
    /\ <<player_x, player_y>> # <<old_x, old_y>>
    /\ points = old_points
    /\ points > 0
    /\ ret = "None"

\* C15: an update made in a frame in which the player stayed on the Exit cell
\* scores again and returns Push again, without a new arrival: consecutive
\* updates on Exit each raise the score by one, so the score can exceed the
\* number of arrivals on Exit.
C15_RepeatedExitScoring ==
    [][(/\ pc = "handle_input"
        /\ <<old_x, old_y>> = <<player_x, player_y>>
        /\ grid[player_y][player_x] = "Exit"
        /\ pc' = "update")
       => (/\ points' = points + 1
           /\ ret' = "Push"
           /\ pushes' = pushes + 1
           /\ arrivals' = arrivals)]_vars

\* one arrival on Exit, then a second update in a frame without a move:
\* score 2 and two Push signals for one arrival
C15_Witness ==
    /\ pc = "update"
    /\ WellFormed
    /\ ret = "Push"
    /\ old_points = 1
    /\ points = 2
    /\ pushes = 2
    /\ arrivals = 1

\* C16: with Right and Left both pressed the candidate keeps the current x,
\* with Down and Up both pressed it keeps the current y, and a frame whose
\* only presses are Right+Left and/or Down+Up leaves the player where it was.
C16_OppositeKeysCancel ==
    pc = "handle_input" =>
        /\ {"Right", "Left"} \subseteq keys => new_x = old_x
        /\ {"Down", "Up"} \subseteq keys => new_y = old_y
        /\ keys \in {{"Right", "Left"}, {"Down", "Up"}, Directions}
              => (player_x = old_x /\ player_y = old_y)

\* Right+Left pressed where Right alone would have moved the player
C16_Witness ==
    /\ pc = "handle_input"
    /\ keys = {"Right", "Left"}
    /\ Passable(old_x + 1, old_y)
    /\ new_x = old_x
    /\ player_x = old_x
    /\ player_y = old_y

\* the candidate of a key set: +1 for Right or Down, then -1 for Left or Up
\* unless that would pass below 0
Net(c, inc, dec) ==
    c + (IF inc THEN 1 ELSE 0) - (IF dec /\ (inc \/ c > 0) THEN 1 ELSE 0)

\* C17: after handle_input the player is at the full candidate (both
\* coordinates) when that cell is in bounds and not Wall, and otherwise
\* exactly where it was: never at a position with one axis applied.
C17_AllOrNothing ==
    pc = "handle_input" =>
        /\ new_x = Net(old_x, "Right" \in keys, "Left" \in keys)
        /\ new_y = Net(old_y, "Down" \in keys, "Up" \in keys)
        /\ IF Passable(new_x, new_y)
           THEN player_x = new_x /\ player_y = new_y
           ELSE player_x = old_x /\ player_y = old_y

\* Right+Down rejected as a whole although the cell to the right is passable
C17_Witness ==
    /\ pc = "handle_input"
    /\ keys = {"Right", "Down"}
    /\ Passable(old_x + 1, old_y)
    /\ ~Passable(old_x + 1, old_y + 1)
    /\ player_x = old_x
    /\ player_y = old_y

\* C20: with one horizontal and one vertical key pressed the player moves
\* to the diagonal cell whenever that cell is in bounds and not Wall,
\* whatever the two orthogonal neighbours are.
C20_DiagonalByDestination ==
    \A h \in {"Right", "Left"}, v \in {"Down", "Up"} :
        (pc = "handle_input" /\ keys = {h, v}) =>
            LET tx == old_x + Delta(h)[1]
                ty == old_y + Delta(v)[2]
            IN  Passable(tx, ty) => (player_x = tx /\ player_y = ty)

\* Right+Down has moved the player diagonally between two Wall cells
C20_Witness ==
    /\ pc = "handle_input"
    /\ keys = {"Right", "Down"}
    /\ player_x = old_x + 1
    /\ player_y = old_y + 1
    /\ grid[old_y][old_x + 1] = "Wall"
    /\ grid[old_y + 1][old_x] = "Wall"

\* the cells one handle_input can take the player to from cell p, over all
\* key sets, and the cells any sequence of handle_input calls can reach
Moves(p) ==
    {q \in {<<Candidate(p[1], "Right" \in k, "Left" \in k),
              Candidate(p[2], "Down" \in k, "Up" \in k)>> :
                k \in SUBSET Directions} : Passable(q[1], q[2])}
RECURSIVE Closure(_)
Closure(S) ==
    LET T == S \cup UNION {Moves(p) : p \in S}
    IN  IF T = S THEN S ELSE Closure(T)
StartPos == FindStart(grid, grid_width, grid_height)
Solvable == \E p \in Closure({StartPos}) : grid[p[2]][p[1]] = "Exit"

C19_PlayerOnOpenCell ==
    Constructed =>
        /\ InBounds(player_x, player_y)
        /\ grid[player_y][player_x] # "Wall"

\* a move into an in-bounds Wall cell was rejected away from the Start cell
C19_Witness ==
    /\ pc = "handle_input"
    /\ keys # {}
    /\ InBounds(new_x, new_y)
    /\ grid[new_y][new_x] = "Wall"
    /\ <<player_x, player_y>> = <<old_x, old_y>>
    /\ grid[player_y][player_x] = "Path"

====
